---------------------------- MODULE Spec2Model ----------------------------
(***************************************************************************)
(* A model of azure/services/managedclusters/managedclusters.go: the       *)
(* managed cluster service (Reconcile, Delete) driving a provider client.  *)
(*                                                                         *)
(* Strings that the code parses or formats (ServiceCIDR, DNSServiceIP) are *)
(* sequences of one-character strings; every other string is opaque.       *)
(* A Go pointer is a sequence of length at most one: <<>> is nil and <<v>> *)
(* points to v.                                                            *)
(***************************************************************************)
EXTENDS Integers, Sequences, FiniteSets, TLC

\* ------------------------------------------------------------------ bounds

\* The number of callers that may run Reconcile or Delete at the same time.
MaxProcs == 2

Procs == 1..MaxProcs

\* ---------------------------------------------------------------- pointers

Nil == <<>>

Ptr(v) == <<v>>

Deref(p) == p[1]

\* ------------------------------------------------------- net.ParseCIDR etc.

DigitChars == <<"0", "1", "2", "3", "4", "5", "6", "7", "8", "9">>

IsDigit(c) == \E d \in 1..10 : DigitChars[d] = c

DigitVal(c) == (CHOOSE d \in 1..10 : DigitChars[d] = c) - 1

\* net's "bigger than we need, not too big to worry about overflow"
big == 16777215

IPv4len == 4

IPv6len == 16

\* The one element of a singleton set. { e(x) : x \in {v} } computes v once
\* and e from its value, as the code computes a local variable once.
Only(S) == CHOOSE x \in S : TRUE

\* The tail of s from (1-based) position i on.
Drop(s, i) == SubSeq(s, i, Len(s))

\* net.dtoi: the decimal number at the start of s, as [n, i, ok] with i the
\* number of characters consumed.
RECURSIVE dtoiFrom(_, _, _)
dtoiFrom(s, i, n) ==
    IF i < Len(s) /\ IsDigit(s[i + 1])
    THEN Only({ IF m >= big
                THEN [n |-> big, i |-> i, ok |-> FALSE]
                ELSE dtoiFrom(s, i + 1, m) :
                m \in {n * 10 + DigitVal(s[i + 1])} })
    ELSE IF i = 0
         THEN [n |-> 0, i |-> 0, ok |-> FALSE]
         ELSE [n |-> n, i |-> i, ok |-> TRUE]

dtoi(s) == Only({ dtoiFrom(t, 0, 0) : t \in {s} })

v4InV6Prefix == <<0, 0, 0, 0, 0, 0, 0, 0, 0, 0, 255, 255>>

\* net.IPv4: the 16-byte form of the address a.b.c.d.
IPv4(a, b, c, d) == v4InV6Prefix \o <<a, b, c, d>>

\* net.parseIPv4: the 16-byte address, or Nil. s is what is left of the
\* string, p the octets read so far.
RECURSIVE parseIPv4From(_, _)
parseIPv4From(s, p) ==
    IF Len(p) = IPv4len
    THEN IF Len(s) # 0 THEN Nil ELSE IPv4(p[1], p[2], p[3], p[4])
    ELSE IF Len(s) = 0
         THEN Nil
         ELSE IF Len(p) > 0 /\ s[1] # "."
              THEN Nil
              ELSE Only({ Only({ IF ~r.ok \/ r.n > 255
                                 THEN Nil
                                 ELSE IF r.i > 1 /\ t[1] = "0"
                                      THEN Nil
                                      ELSE Only({ parseIPv4From(rest, q) :
                                                  rest \in {Drop(t, r.i + 1)},
                                                  q \in {Append(p, r.n)} }) :
                                 r \in {dtoi(t)} }) :
                          t \in {IF Len(p) > 0 THEN Drop(s, 2) ELSE s} })

parseIPv4(s) == parseIPv4From(s, <<>>)

\* net.parseIPv6 on the strings of this model, none of which holds a ':':
\* without a colon no string is an IPv6 address.
parseIPv6(s) == Nil

\* bytealg.IndexByteString: the 0-based index of the first c in s, or -1.
IndexByteString(s, c) ==
    IF \E i \in 1..Len(s) : s[i] = c
    THEN (CHOOSE i \in 1..Len(s) : s[i] = c /\ \A j \in 1..(i - 1) : s[j] # c) - 1
    ELSE -1

Pow2(k) == 2 ^ k

\* One byte of net.CIDRMask(ones, bits): byte number k (0-based) of the mask.
MaskByte(ones, k) ==
    LET n == ones - 8 * k
    IN  IF n >= 8 THEN 255
        ELSE IF n <= 0 THEN 0
        ELSE 256 - Pow2(8 - n)

\* The bitwise and of two bytes.
RECURSIVE AndByte(_, _, _)
AndByte(x, y, bits) ==
    IF bits = 0 THEN 0
    ELSE 2 * AndByte(x \div 2, y \div 2, bits - 1)
         + (IF x % 2 = 1 /\ y % 2 = 1 THEN 1 ELSE 0)

\* ip.Mask(CIDRMask(ones, 32)) for a 16-byte IPv4 address: the 4-byte network.
MaskIPv4(ip, ones) ==
    [k \in 1..IPv4len |-> AndByte(ip[12 + k], MaskByte(ones, k - 1), 8)]

\* net.ParseCIDR after the search for the '/': i is its 0-based index in s.
ParseCIDRAt(s, i) ==
    LET bad == [ok |-> FALSE, ip |-> Nil, net |-> Nil, ones |-> 0]
    IN  IF i < 0
        THEN bad
        ELSE Only({ Only({ IF ip = Nil \/ ~r.ok \/ r.i # Len(mask) \/ r.n < 0
                              \/ r.n > 8 * (IF ip4 = Nil THEN IPv6len ELSE IPv4len)
                           THEN bad
                           ELSE [ok |-> TRUE, ip |-> ip, net |-> MaskIPv4(ip, r.n),
                                 ones |-> r.n] :
                           ip \in {IF ip4 = Nil THEN parseIPv6(addr) ELSE ip4},
                           r \in {dtoi(mask)} }) :
                    addr \in {SubSeq(s, 1, i)},
                    mask \in {Drop(s, i + 2)},
                    ip4 \in {parseIPv4(SubSeq(s, 1, i))} })

\* net.ParseCIDR: [ok, ip, net, ones]. ip is the address as written (not
\* masked), net the network address.
ParseCIDR(s) ==
    Only({ ParseCIDRAt(t, i) : t \in {s}, i \in {IndexByteString(s, "/")} })

\* net.uitoa: the decimal digits of n.
RECURSIVE uitoa(_)
uitoa(n) ==
    IF n < 10 THEN <<DigitChars[n + 1]>>
    ELSE uitoa(n \div 10) \o <<DigitChars[(n % 10) + 1]>>

\* ip.To4: the last four bytes of a 16-byte address that holds an IPv4 one.
To4(ip) ==
    IF Len(ip) = IPv4len THEN ip
    ELSE IF Len(ip) = IPv6len /\ SubSeq(ip, 1, 12) = v4InV6Prefix
         THEN SubSeq(ip, 13, 16)
         ELSE Nil

\* ip.String for an address that holds an IPv4 one: dotted decimal.
IPString(ip) ==
    LET p4 == To4(ip)
    IN  uitoa(p4[1]) \o <<".">> \o uitoa(p4[2]) \o <<".">>
        \o uitoa(p4[3]) \o <<".">> \o uitoa(p4[4])


\* --------------------------------------------------------------- the inputs

\* "10.0.0.0/16"
CIDR16 == <<"1", "0", ".", "0", ".", "0", ".", "0", "/", "1", "6">>

\* "10.0.0.0/33": the prefix length is out of range
CIDR33 == <<"1", "0", ".", "0", ".", "0", ".", "0", "/", "3", "3">>

\* "not-a-cidr"
NotACIDR == <<"n", "o", "t", "-", "a", "-", "c", "i", "d", "r">>

\* "10.0.0.10"
DNS10 == <<"1", "0", ".", "0", ".", "0", ".", "1", "0">>

EmptyString == <<>>

Versions == {"1.20.5", "1.21.2"}

ServiceCIDRs == {EmptyString, CIDR16, CIDR33, NotACIDR}

DNSServiceIPs == {Nil, Ptr(DNS10)}

NoTags == [k \in {} |-> ""]

Pool0 == [Name |-> "pool0", SKU |-> "Standard_D2s_v3", Replicas |-> 2, OSDiskSizeGB |-> 30]

\* A managedclusters.Spec of the cluster "my-cluster" in "my-rg".
BaseSpec(version, serviceCIDR, dnsServiceIP) ==
    [ Name                  |-> "my-cluster",
      ResourceGroupName     |-> "my-rg",
      NodeResourceGroupName |-> "MC_my-rg",
      VnetSubnetID          |-> "subnet-1",
      Location              |-> "westus2",
      Tags                  |-> [k \in {"env"} |-> "prod"],
      Version               |-> version,
      LoadBalancerSKU       |-> "Standard",
      NetworkPlugin         |-> "azure",
      NetworkPolicy         |-> "azure",
      SSHPublicKey          |-> "ssh-rsa AAAA",
      AgentPools            |-> <<Pool0>>,
      PodCIDR               |-> "192.168.0.0/16",
      ServiceCIDR           |-> serviceCIDR,
      DNSServiceIP          |-> dnsServiceIP ]

\* The *Spec values a caller passes.
Specs ==
    { BaseSpec(v, c, d) : v \in Versions, c \in ServiceCIDRs, d \in DNSServiceIPs }

\* A spec argument that is not a *Spec: the type assertion fails on it.
WrongType == [NotASpec |-> TRUE]

SpecArgs == Specs \cup {WrongType}

\* "10.0.5.7/16": the address is not the base address of its network
CIDRNonBase == <<"1", "0", ".", "0", ".", "5", ".", "7", "/", "1", "6">>

\* "10.200.3.4/8"
CIDR8 == <<"1", "0", ".", "2", "0", "0", ".", "3", ".", "4", "/", "8">>

\* "172.16.37.200/20": the prefix ends inside the third octet
CIDR20 == <<"1", "7", "2", ".", "1", "6", ".", "3", "7", ".", "2", "0", "0", "/", "2", "0">>

\* "192.168.1.77/24"
CIDR24 == <<"1", "9", "2", ".", "1", "6", "8", ".", "1", ".", "7", "7", "/", "2", "4">>

\* "10.0.0.0/30": the network has no address that ends in .10
CIDR30 == <<"1", "0", ".", "0", ".", "0", ".", "0", "/", "3", "0">>

\* The service CIDRs of the specs that exercise the derivation of the DNS
\* service IP.
NetCIDRs == {CIDR16, CIDRNonBase, CIDR8, CIDR20, CIDR24, CIDR30}

NetSpecs == { BaseSpec("1.20.5", c, d) : c \in NetCIDRs, d \in DNSServiceIPs }

\* spec.(*Spec)
IsSpec(s) == "Name" \in DOMAIN s

\* -------------------------------------------------------------------- errors
\* An error is a pointer to a record; nil is no error.

NotFoundErr == Ptr([msg |-> "ResourceNotFound"])

ProviderErr == Ptr([msg |-> "provider error"])

\* azure.ResourceNotFound
ResourceNotFound(err) == err = NotFoundErr

ExpectedSpecErr == Ptr([msg |-> "expected managed cluster specification"])

ParseCIDRErr == Ptr([msg |-> "failed to parse service cidr"])

\* errors.Wrap / fmt.Errorf("...%w"): the message, with the cause chained.
Wrap(err, msg) == Ptr([msg |-> msg, cause |-> err])

NonTerminalErr(ps) ==
    Ptr([msg |-> "Unable to update existing managed cluster in non terminal state",
         state |-> ps])

\* ------------------------------------------------------ the provider resource

defaultUser == "azureuser"

managedIdentity == "msi"

\* infrav1alpha4.Canceled, Failed, Succeeded
TerminalStates == {"Canceled", "Failed", "Succeeded"}

InProgressStates == {"Creating", "Updating", "Deleting"}

ProvisioningStates == TerminalStates \cup InProgressStates

\* to.StringMapPtr: each value behind a pointer.
StringMapPtr(tags) == [k \in DOMAIN tags |-> Ptr(tags[k])]

AgentPoolProfile(pool, spec) ==
    [ Name         |-> Ptr(pool.Name),
      VMSize       |-> Ptr(pool.SKU),
      OsDiskSizeGB |-> Ptr(pool.OSDiskSizeGB),
      Count        |-> Ptr(pool.Replicas),
      Type         |-> "VirtualMachineScaleSets",
      VnetSubnetID |-> Ptr(spec.VnetSubnetID),
      Mode         |-> "System" ]

\* ServiceNetwork going on when the service CIDR does not parse.
ServiceNetwork_IgnoreParseError(spec) ==
    IF spec.ServiceCIDR # EmptyString
    THEN IF spec.DNSServiceIP = Nil
         THEN [err |-> Nil, ServiceCidr |-> Ptr(spec.ServiceCIDR), DNSServiceIP |-> Nil]
         ELSE [err |-> Nil, ServiceCidr |-> Nil, DNSServiceIP |-> spec.DNSServiceIP]
    ELSE [err |-> Nil, ServiceCidr |-> Nil, DNSServiceIP |-> Nil]

\* ServiceNetwork deriving the DNS service IP from the network address.
ServiceNetwork_FromNetwork(spec) ==
    IF spec.ServiceCIDR # EmptyString
    THEN IF spec.DNSServiceIP = Nil
         THEN LET r == ParseCIDR(spec.ServiceCIDR)
              IN  IF ~r.ok
                  THEN [err |-> ParseCIDRErr, ServiceCidr |-> Ptr(spec.ServiceCIDR),
                        DNSServiceIP |-> Nil]
                  ELSE [err |-> Nil, ServiceCidr |-> Ptr(spec.ServiceCIDR),
                        DNSServiceIP |->
                            Ptr(IPString(IPv4(r.net[1], r.net[2], r.net[3], 10)))]
         ELSE [err |-> Nil, ServiceCidr |-> Nil, DNSServiceIP |-> spec.DNSServiceIP]
    ELSE [err |-> Nil, ServiceCidr |-> Nil, DNSServiceIP |-> Nil]

\* ServiceNetwork writing 10 into the first octet of the address.
ServiceNetwork_FirstOctet(spec) ==
    IF spec.ServiceCIDR # EmptyString
    THEN IF spec.DNSServiceIP = Nil
         THEN LET r == ParseCIDR(spec.ServiceCIDR)
              IN  IF ~r.ok
                  THEN [err |-> ParseCIDRErr, ServiceCidr |-> Ptr(spec.ServiceCIDR),
                        DNSServiceIP |-> Nil]
                  ELSE [err |-> Nil, ServiceCidr |-> Ptr(spec.ServiceCIDR),
                        DNSServiceIP |-> Ptr(IPString([r.ip EXCEPT ![13] = 10]))]
         ELSE [err |-> Nil, ServiceCidr |-> Nil, DNSServiceIP |-> spec.DNSServiceIP]
    ELSE [err |-> Nil, ServiceCidr |-> Nil, DNSServiceIP |-> Nil]

\* ServiceNetwork taking the DNS service IP of a spec without a service CIDR.
ServiceNetwork_DNSWithoutCIDR(spec) ==
    IF spec.ServiceCIDR # EmptyString
    THEN IF spec.DNSServiceIP = Nil
         THEN LET r == ParseCIDR(spec.ServiceCIDR)
              IN  IF ~r.ok
                  THEN [err |-> ParseCIDRErr, ServiceCidr |-> Ptr(spec.ServiceCIDR),
                        DNSServiceIP |-> Nil]
                  ELSE [err |-> Nil, ServiceCidr |-> Ptr(spec.ServiceCIDR),
                        DNSServiceIP |-> Ptr(IPString([r.ip EXCEPT ![16] = 10]))]
         ELSE [err |-> Nil, ServiceCidr |-> Nil, DNSServiceIP |-> spec.DNSServiceIP]
    ELSE [err |-> Nil, ServiceCidr |-> Nil, DNSServiceIP |-> spec.DNSServiceIP]

\* The service CIDR and DNS service IP of the built resource, lines 162-179:
\* [err, ServiceCidr, DNSServiceIP].
ServiceNetwork(spec) ==
    IF spec.ServiceCIDR # EmptyString
    THEN IF spec.DNSServiceIP = Nil
         THEN LET r == ParseCIDR(spec.ServiceCIDR)
              IN  IF ~r.ok
                  THEN [err |-> ParseCIDRErr, ServiceCidr |-> Ptr(spec.ServiceCIDR),
                        DNSServiceIP |-> Nil]
                  ELSE [err |-> Nil, ServiceCidr |-> Ptr(spec.ServiceCIDR),
                        DNSServiceIP |-> Ptr(IPString([r.ip EXCEPT ![16] = 10]))]
         ELSE [err |-> Nil, ServiceCidr |-> Nil, DNSServiceIP |-> spec.DNSServiceIP]
    ELSE [err |-> Nil, ServiceCidr |-> Nil, DNSServiceIP |-> Nil]

\* The containerservice.ManagedCluster that Reconcile builds, lines 126-193:
\* [err, mc].
BuildManagedCluster(spec) ==
    LET sn == ServiceNetwork(spec)
    IN  [ err |-> sn.err,
          mc  |->
            [ Identity |-> Ptr([Type |-> "SystemAssigned"]),
              Location |-> Ptr(spec.Location),
              Tags     |-> StringMapPtr(spec.Tags),
              ManagedClusterProperties |-> Ptr(
                [ ProvisioningState |-> Nil,
                  NodeResourceGroup |-> Ptr(spec.NodeResourceGroupName),
                  DNSPrefix         |-> Ptr(spec.Name),
                  KubernetesVersion |-> Ptr(spec.Version),
                  LinuxProfile      |-> Ptr(
                    [ AdminUsername |-> Ptr(defaultUser),
                      SSH |-> Ptr([PublicKeys |->
                                Ptr(<<[KeyData |-> Ptr(spec.SSHPublicKey)]>>)]) ]),
                  ServicePrincipalProfile |-> Ptr([ClientID |-> Ptr(managedIdentity)]),
                  AgentPoolProfiles |-> Ptr(
                    [i \in 1..Len(spec.AgentPools) |->
                        AgentPoolProfile(spec.AgentPools[i], spec)]),
                  NetworkProfile |-> Ptr(
                    [ NetworkPlugin   |-> spec.NetworkPlugin,
                      LoadBalancerSku |-> spec.LoadBalancerSKU,
                      NetworkPolicy   |-> spec.NetworkPolicy,
                      PodCidr         |-> IF spec.PodCIDR # ""
                                          THEN Ptr(spec.PodCIDR) ELSE Nil,
                      ServiceCidr     |-> sn.ServiceCidr,
                      DNSServiceIP    |-> sn.DNSServiceIP ]) ]) ] ]

\* BuildManagedCluster on each spec of the model, evaluated once.
BuiltFor == [s \in Specs \cup NetSpecs |-> BuildManagedCluster(s)]

\* ------------------------------------------------------------------ state

VARIABLES
    store,           \* the provider's managed cluster "my-cluster": Nil or a pointer to it
    pc,              \* each caller's position: idle, get, create, update, done, crashed
    op,              \* the entry point a caller is in: "", "Reconcile", "Delete" or "Get"
    spec,            \* the spec argument of the call in progress
    managedCluster,  \* the resource Reconcile built (Nil before it is built)
    ret,             \* the error the call returned (Nil: none)
    calls,           \* the provider calls the call has issued, in order
    raced,           \* the provider accepted another caller's mutating call between
                     \* this call's Get and its CreateOrUpdate
    pred,            \* the outcome of a Reconcile call with this call's spec that returned
                     \* success before this call began, the provider's state not having
                     \* changed since but by this call (Nil: none)
    quiet,           \* the spec and outcome of the last Reconcile call that returned
                     \* success, while the provider's state has not changed since
    goal,            \* the one spec the control loop reconciles (Nil: any spec)
    given            \* the value the spec argument had when the call began, as the
                     \* caller passed it (Nil: no call in progress)

vars == <<store, pc, op, spec, managedCluster, ret, calls, raced, pred, quiet, goal, given>>

\* The provisioning state of a fetched or stored managed cluster: Nil when the
\* cluster is absent or carries none.
StateOf(st) ==
    IF st = Nil THEN Nil
    ELSE IF Deref(st).ManagedClusterProperties = Nil THEN Nil
    ELSE Deref(Deref(st).ManagedClusterProperties).ProvisioningState

\* mc with its provisioningState set to ps, as the provider reports it.
WithState(mc, ps) ==
    [mc EXCEPT !.ManagedClusterProperties =
        Ptr([Deref(mc.ManagedClusterProperties) EXCEPT !.ProvisioningState = ps])]

\* A managed cluster that some other tool created: no field is what this
\* service builds, and kubernetesVersion is kv.
ForeignMC(kv) ==
    [ Identity |-> Nil,
      Location |-> Ptr("eastus"),
      Tags     |-> NoTags,
      ManagedClusterProperties |-> Ptr(
        [ ProvisioningState |-> Nil,
          NodeResourceGroup |-> Ptr("MC_other"),
          DNSPrefix         |-> Ptr("other"),
          KubernetesVersion |-> kv,
          LinuxProfile      |-> Nil,
          ServicePrincipalProfile |-> Nil,
          AgentPoolProfiles |-> Ptr(<<>>),
          NetworkProfile    |-> Nil ]) ]

\* The managed clusters the provider may hold at the start: Nil (absent), one
\* built from a spec or a foreign one in any provisioning state, or one that
\* carries no provisioning state or no properties at all.
InitialStores ==
    {Nil}
    \cup { Ptr(WithState(BuiltFor[s].mc, Ptr(ps))) :
             s \in {x \in Specs : BuiltFor[x].err = Nil},
             ps \in ProvisioningStates }
    \cup { Ptr(WithState(ForeignMC(kv), Ptr(ps))) :
             kv \in {Nil} \cup {Ptr(v) : v \in Versions}, ps \in ProvisioningStates }
    \cup { Ptr(ForeignMC(Nil)),
           Ptr([ForeignMC(Nil) EXCEPT !.ManagedClusterProperties = Nil]) }

\* What every caller holds before its first call.
CallersIdle ==
    /\ pc = [p \in Procs |-> "idle"]
    /\ op = [p \in Procs |-> ""]
    /\ spec = [p \in Procs |-> Nil]
    /\ managedCluster = [p \in Procs |-> Nil]
    /\ ret = [p \in Procs |-> Nil]
    /\ calls = [p \in Procs |-> <<>>]
    /\ raced = [p \in Procs |-> FALSE]
    /\ pred = [p \in Procs |-> Nil]
    /\ quiet = Nil
    /\ given = [p \in Procs |-> Nil]

Init ==
    /\ store \in InitialStores
    /\ CallersIdle
    /\ goal = Nil

\* ------------------------------------------------------ the provider client
\* s.Client: what each call answers, given the provider's state. fail says
\* that the call fails for a reason of the provider's own.

\* Client.Get: [mc, err].
ClientGet(st, fail) ==
    IF fail THEN [mc |-> Nil, err |-> ProviderErr]
    ELSE IF st = Nil THEN [mc |-> Nil, err |-> NotFoundErr]
    ELSE [mc |-> st, err |-> Nil]

\* Client.CreateOrUpdate: [store, err]. An accepted call stores the resource
\* sent; provisioning is not necessarily complete when the call returns
\* (complete says that it is).
ClientCreateOrUpdate(st, mc, fail, complete) ==
    IF fail THEN [store |-> st, err |-> ProviderErr]
    ELSE [store |-> Ptr(WithState(mc, Ptr(IF complete THEN "Succeeded"
                                          ELSE IF st = Nil THEN "Creating"
                                          ELSE "Updating"))),
          err |-> Nil]

\* Client.Delete: [store, err].
ClientDelete(st, fail) ==
    IF fail THEN [store |-> st, err |-> ProviderErr]
    ELSE IF st = Nil THEN [store |-> st, err |-> NotFoundErr]
    ELSE IF StateOf(st) = Nil THEN [store |-> Nil, err |-> Nil]
    ELSE [store |-> Ptr(WithState(Deref(st), Ptr("Deleting"))), err |-> Nil]

\* One provider call, as a caller's log keeps it: its arguments (arg is the
\* resource sent) and its answer (res is the resource a Get answered with).
Call(name, s, arg, err, res) ==
    [ name |-> name, resourceGroup |-> s.ResourceGroupName, resourceName |-> s.Name,
      arg |-> arg, err |-> err, res |-> res ]

IsMutating(c) == c.name \in {"CreateOrUpdate", "Delete"}

\* ---------------------------------------------------------------- Reconcile

\* cmpDiff finding no difference ever.
cmpDiff_Never(x, y) == ""

\* cmpDiff finding a difference always.
cmpDiff_Always(x, y) == "+new -old"

\* cmp.Diff: "" when the two values are equal.
cmpDiff(x, y) == IF x = y THEN "" ELSE "+new -old"

\* Normalized keeping every property the service sets.
Normalized_AllProperties(mc) ==
    [Deref(mc.ManagedClusterProperties) EXCEPT !.ProvisioningState = Nil]

\* The properties the update decision compares, lines 220-225.
Normalized(mc) ==
    [KubernetesVersion |-> Deref(mc.ManagedClusterProperties).KubernetesVersion]

\* ReconcileDecision returning success when the resource is not found.
ReconcileDecision_SkipCreate(desired, get) ==
    IF get.err # Nil /\ ~ResourceNotFound(get.err)
    THEN [pc |-> "done", ret |-> Wrap(get.err, "failed to get existing managed cluster")]
    ELSE IF ResourceNotFound(get.err)
    THEN [pc |-> "done", ret |-> Nil]
    ELSE IF StateOf(get.mc) = Nil
    THEN [pc |-> "crashed", ret |-> Nil]   \* nil pointer dereference, line 207
    ELSE LET ps == Deref(StateOf(get.mc))
         IN  IF ps # "Canceled" /\ ps # "Failed" /\ ps # "Succeeded"
             THEN [pc |-> "done", ret |-> NonTerminalErr(ps)]
             ELSE IF cmpDiff(Normalized(desired), Normalized(Deref(get.mc))) # ""
                  THEN [pc |-> "update", ret |-> Nil]
                  ELSE [pc |-> "done", ret |-> Nil]

\* ReconcileDecision without the check of the provisioning state.
ReconcileDecision_NoStateGuard(desired, get) ==
    IF get.err # Nil /\ ~ResourceNotFound(get.err)
    THEN [pc |-> "done", ret |-> Wrap(get.err, "failed to get existing managed cluster")]
    ELSE IF ResourceNotFound(get.err)
    THEN [pc |-> "create", ret |-> Nil]
    ELSE IF StateOf(get.mc) = Nil
    THEN [pc |-> "crashed", ret |-> Nil]   \* nil pointer dereference, line 207
    ELSE LET ps == Deref(StateOf(get.mc))
         IN  IF FALSE
             THEN [pc |-> "done", ret |-> NonTerminalErr(ps)]
             ELSE IF cmpDiff(Normalized(desired), Normalized(Deref(get.mc))) # ""
                  THEN [pc |-> "update", ret |-> Nil]
                  ELSE [pc |-> "done", ret |-> Nil]

\* ReconcileDecision taking Updating for a state that allows an update.
ReconcileDecision_UpdatingAllowed(desired, get) ==
    IF get.err # Nil /\ ~ResourceNotFound(get.err)
    THEN [pc |-> "done", ret |-> Wrap(get.err, "failed to get existing managed cluster")]
    ELSE IF ResourceNotFound(get.err)
    THEN [pc |-> "create", ret |-> Nil]
    ELSE IF StateOf(get.mc) = Nil
    THEN [pc |-> "crashed", ret |-> Nil]   \* nil pointer dereference, line 207
    ELSE LET ps == Deref(StateOf(get.mc))
         IN  IF ps # "Canceled" /\ ps # "Failed" /\ ps # "Succeeded" /\ ps # "Updating"
             THEN [pc |-> "done", ret |-> NonTerminalErr(ps)]
             ELSE IF cmpDiff(Normalized(desired), Normalized(Deref(get.mc))) # ""
                  THEN [pc |-> "update", ret |-> Nil]
                  ELSE [pc |-> "done", ret |-> Nil]

\* ReconcileDecision leaving a resource of another version as it is.
ReconcileDecision_NoUpdate(desired, get) ==
    IF get.err # Nil /\ ~ResourceNotFound(get.err)
    THEN [pc |-> "done", ret |-> Wrap(get.err, "failed to get existing managed cluster")]
    ELSE IF ResourceNotFound(get.err)
    THEN [pc |-> "create", ret |-> Nil]
    ELSE IF StateOf(get.mc) = Nil
    THEN [pc |-> "crashed", ret |-> Nil]   \* nil pointer dereference, line 207
    ELSE LET ps == Deref(StateOf(get.mc))
         IN  IF ps # "Canceled" /\ ps # "Failed" /\ ps # "Succeeded"
             THEN [pc |-> "done", ret |-> NonTerminalErr(ps)]
             ELSE [pc |-> "done", ret |-> Nil]

\* What Reconcile does with the answer of Client.Get, lines 196-234: the
\* position it goes to and, where it returns, the error it returns.
ReconcileDecision(desired, get) ==
    IF get.err # Nil /\ ~ResourceNotFound(get.err)
    THEN [pc |-> "done", ret |-> Wrap(get.err, "failed to get existing managed cluster")]
    ELSE IF ResourceNotFound(get.err)
    THEN [pc |-> "create", ret |-> Nil]
    ELSE IF StateOf(get.mc) = Nil
    THEN [pc |-> "crashed", ret |-> Nil]   \* nil pointer dereference, line 207
    ELSE LET ps == Deref(StateOf(get.mc))
         IN  IF ps # "Canceled" /\ ps # "Failed" /\ ps # "Succeeded"
             THEN [pc |-> "done", ret |-> NonTerminalErr(ps)]
             ELSE IF cmpDiff(Normalized(desired), Normalized(Deref(get.mc))) # ""
                  THEN [pc |-> "update", ret |-> Nil]
                  ELSE [pc |-> "done", ret |-> Nil]

\* AfterCreateOrUpdate returning success whatever the provider answered.
AfterCreateOrUpdate_IgnoreError(at, err) == [pc |-> "done", ret |-> Nil]

\* AfterCreateOrUpdate sending the resource again when the call failed.
AfterCreateOrUpdate_Retry(at, err) ==
    IF err # Nil
    THEN [pc |-> at, ret |-> Nil]
    ELSE [pc |-> "done", ret |-> Nil]

\* What Reconcile does with the answer of Client.CreateOrUpdate, lines 203-205
\* and 231-233; at is "create" or "update".
AfterCreateOrUpdate(at, err) ==
    IF err # Nil
    THEN [pc |-> "done",
          ret |-> Wrap(err, IF at = "create" THEN "failed to create managed cluster"
                                             ELSE "failed to update managed cluster")]
    ELSE [pc |-> "done", ret |-> Nil]

\* The outcome of a Reconcile call that issued the calls cs and returned r.
Outcome(cs, r) ==
    IF r # Nil THEN "Error"
    ELSE IF \A i \in 1..Len(cs) : cs[i].name # "CreateOrUpdate" THEN "NoOp"
    ELSE IF \E i \in 1..Len(cs) : cs[i].name = "Get" /\ ResourceNotFound(cs[i].err)
         THEN "Create"
         ELSE "Update"

\* A caller other than p that is between its Get and its CreateOrUpdate.
Overtaken(p, q) == q # p /\ pc[q] \in {"create", "update"}

\* The bookkeeping of a step by caller p that issued the calls cs in all, left
\* the provider holding st, and went to position at, returning r. accepted
\* says that the step made a mutating call and the provider accepted it.
Bookkeeping(p, s, cs, st, at, r, accepted) ==
    /\ raced' = [q \in Procs |-> raced[q] \/ (accepted /\ Overtaken(p, q))]
    /\ pred' = [q \in Procs |-> IF q # p /\ st # store THEN Nil ELSE pred[q]]
    /\ quiet' = IF at = "done" /\ op'[p] = "Reconcile" /\ r = Nil
                THEN Ptr([spec |-> s, outcome |-> Outcome(cs, r)])
                ELSE IF st # store THEN Nil ELSE quiet

\* SpecAfterBuild with the derived DNS service IP stored in the spec.
SpecAfterBuild_StoresDNSServiceIP(s) ==
    IF s.ServiceCIDR # EmptyString /\ s.DNSServiceIP = Nil
    THEN [s EXCEPT !.DNSServiceIP = ServiceNetwork(s).DNSServiceIP]
    ELSE s

\* The *Spec s after lines 126-193. The build reads the spec's fields and
\* takes their addresses; it assigns to fields of managedCluster, to the pool
\* copy and, at line 173, to the address that net.ParseCIDR allocated, never
\* through managedClusterSpec.
SpecAfterBuild(s) == s

\* Reconcile, lines 117-193: the type assertion and the resource built.
ReconcileBuild(p, s) ==
    /\ pc[p] = "idle"
    /\ op' = [op EXCEPT ![p] = "Reconcile"]
    /\ given' = [given EXCEPT ![p] = Ptr(s)]
    /\ spec' = [spec EXCEPT ![p] = Ptr(IF IsSpec(s) THEN SpecAfterBuild(s) ELSE s)]
    /\ calls' = [calls EXCEPT ![p] = <<>>]
    /\ raced' = [raced EXCEPT ![p] = FALSE]
    /\ pred' = [pred EXCEPT ![p] =
                    IF quiet # Nil /\ Deref(quiet).spec = s
                    THEN Ptr(Deref(quiet).outcome) ELSE Nil]
    /\ IF ~IsSpec(s)
       THEN /\ pc' = [pc EXCEPT ![p] = "done"]
            /\ ret' = [ret EXCEPT ![p] = ExpectedSpecErr]
            /\ managedCluster' = [managedCluster EXCEPT ![p] = Nil]
            /\ quiet' = quiet
       ELSE LET b == BuiltFor[s]
            IN  IF b.err # Nil
                THEN /\ pc' = [pc EXCEPT ![p] = "done"]
                     /\ ret' = [ret EXCEPT ![p] = b.err]
                     /\ managedCluster' = [managedCluster EXCEPT ![p] = Nil]
                     /\ quiet' = quiet
                ELSE /\ pc' = [pc EXCEPT ![p] = "get"]
                     /\ ret' = [ret EXCEPT ![p] = Nil]
                     /\ managedCluster' = [managedCluster EXCEPT ![p] = Ptr(b.mc)]
                     /\ quiet' = quiet
    /\ UNCHANGED <<store, goal>>

\* Reconcile, lines 195-229: the existing resource is fetched and the call
\* decides what to do.
ReconcileGetWith(p, fail) ==
    /\ pc[p] = "get"
    /\ LET s   == Deref(spec[p])
           get == ClientGet(store, fail)
           d   == ReconcileDecision(Deref(managedCluster[p]), get)
           cs  == Append(calls[p], Call("Get", s, Nil, get.err, get.mc))
       IN  /\ calls' = [calls EXCEPT ![p] = cs]
           /\ pc' = [pc EXCEPT ![p] = d.pc]
           /\ ret' = [ret EXCEPT ![p] = d.ret]
           /\ op' = op
           /\ Bookkeeping(p, s, cs, store, d.pc, d.ret, FALSE)
    /\ UNCHANGED <<store, spec, managedCluster, goal, given>>

ReconcileGet(p) == \E fail \in BOOLEAN : ReconcileGetWith(p, fail)

\* Reconcile, lines 202-205 and 230-233: the built resource is sent.
ReconcileCreateOrUpdateWith(p, fail, complete) ==
    /\ pc[p] \in {"create", "update"}
    /\ LET s  == Deref(spec[p])
           mc == Deref(managedCluster[p])
           r  == ClientCreateOrUpdate(store, mc, fail, complete)
           d  == AfterCreateOrUpdate(pc[p], r.err)
           cs == Append(calls[p], Call("CreateOrUpdate", s, Ptr(mc), r.err, Nil))
       IN  /\ calls' = [calls EXCEPT ![p] = cs]
           /\ store' = r.store
           /\ pc' = [pc EXCEPT ![p] = d.pc]
           /\ ret' = [ret EXCEPT ![p] = d.ret]
           /\ op' = op
           /\ Bookkeeping(p, s, cs, r.store, d.pc, d.ret, r.err = Nil)
    /\ UNCHANGED <<spec, managedCluster, goal, given>>

ReconcileCreateOrUpdate(p) ==
    \E fail \in BOOLEAN, complete \in BOOLEAN :
        ReconcileCreateOrUpdateWith(p, fail, complete)

\* ------------------------------------------------------------------- Delete

\* DeleteResult returning the error when the resource is not found.
DeleteResult_NotFoundFails(err, s) ==
    IF err # Nil
    THEN Wrap(err, "failed to delete managed cluster")
    ELSE Nil

\* What Delete returns for the answer of Client.Delete, lines 252-261.
DeleteResult(err, s) ==
    IF err # Nil
    THEN IF ResourceNotFound(err)
         THEN Nil
         ELSE Wrap(err, "failed to delete managed cluster")
    ELSE Nil

\* DeleteCalls leaving alone a resource that is in a transition.
DeleteCalls_SkipInTransition(s, st, err) ==
    IF StateOf(st) # Nil /\ Deref(StateOf(st)) \in InProgressStates
    THEN <<>>
    ELSE <<Call("Delete", s, Nil, err, Nil)>>

\* The provider calls that Delete issues, line 251: the one Client.Delete,
\* whatever the provider holds (st) and whatever it answers (err).
DeleteCalls(s, st, err) == <<Call("Delete", s, Nil, err, Nil)>>

\* Delete, lines 241-262.
Delete(p, s) ==
    /\ pc[p] = "idle"
    /\ op' = [op EXCEPT ![p] = "Delete"]
    /\ given' = [given EXCEPT ![p] = Ptr(s)]
    /\ spec' = [spec EXCEPT ![p] = Ptr(s)]
    /\ pc' = [pc EXCEPT ![p] = "done"]
    /\ UNCHANGED <<managedCluster, goal>>
    /\ IF ~IsSpec(s)
       THEN /\ ret' = [ret EXCEPT ![p] = ExpectedSpecErr]
            /\ calls' = [calls EXCEPT ![p] = <<>>]
            /\ store' = store
            /\ Bookkeeping(p, s, <<>>, store, "done", ExpectedSpecErr, FALSE)
       ELSE \E fail \in BOOLEAN :
              LET r  == ClientDelete(store, fail)
                  cs == DeleteCalls(s, store, r.err)
              IN  /\ ret' = [ret EXCEPT ![p] = DeleteResult(r.err, s)]
                  /\ calls' = [calls EXCEPT ![p] = cs]
                  /\ store' = r.store
                  /\ Bookkeeping(p, s, cs, r.store, "done", DeleteResult(r.err, s),
                                 r.err = Nil)

\* ---------------------------------------------------------------------- Get

\* Get, lines 97-106: the type assertion and the one Client.Get, whose answer
\* (the resource, kept in the call's log, and the error) it returns.
Get(p, s) ==
    /\ pc[p] = "idle"
    /\ op' = [op EXCEPT ![p] = "Get"]
    /\ given' = [given EXCEPT ![p] = Ptr(s)]
    /\ spec' = [spec EXCEPT ![p] = Ptr(s)]
    /\ pc' = [pc EXCEPT ![p] = "done"]
    /\ UNCHANGED <<store, managedCluster, goal>>
    /\ IF ~IsSpec(s)
       THEN /\ ret' = [ret EXCEPT ![p] = ExpectedSpecErr]
            /\ calls' = [calls EXCEPT ![p] = <<>>]
            /\ Bookkeeping(p, s, <<>>, store, "done", ExpectedSpecErr, FALSE)
       ELSE \E fail \in BOOLEAN :
              LET r  == ClientGet(store, fail)
                  cs == <<Call("Get", s, Nil, r.err, r.mc)>>
              IN  /\ ret' = [ret EXCEPT ![p] = r.err]
                  /\ calls' = [calls EXCEPT ![p] = cs]
                  /\ Bookkeeping(p, s, cs, store, "done", r.err, FALSE)

\* ------------------------------------------------------------- the callers

\* The caller takes what the call returned (or is restarted after the crash)
\* and is free to call again.
Return(p) ==
    /\ pc[p] \in {"done", "crashed"}
    /\ pc' = [pc EXCEPT ![p] = "idle"]
    /\ op' = [op EXCEPT ![p] = ""]
    /\ spec' = [spec EXCEPT ![p] = Nil]
    /\ managedCluster' = [managedCluster EXCEPT ![p] = Nil]
    /\ ret' = [ret EXCEPT ![p] = Nil]
    /\ calls' = [calls EXCEPT ![p] = <<>>]
    /\ raced' = [raced EXCEPT ![p] = FALSE]
    /\ pred' = [pred EXCEPT ![p] = Nil]
    /\ given' = [given EXCEPT ![p] = Nil]
    /\ UNCHANGED <<store, quiet, goal>>

\* ------------------------------------------------------------ the provider

\* The provider ends the transition in progress: a resource being created or
\* updated reaches a terminal state, one being deleted is gone.
ProviderFinish ==
    /\ StateOf(store) # Nil
    /\ Deref(StateOf(store)) \in InProgressStates
    /\ IF Deref(StateOf(store)) = "Deleting"
       THEN store' = Nil
       ELSE \E t \in TerminalStates : store' = Ptr(WithState(Deref(store), Ptr(t)))
    /\ pred' = [q \in Procs |-> Nil]
    /\ quiet' = Nil
    /\ UNCHANGED <<pc, op, spec, managedCluster, ret, calls, raced, goal, given>>

\* No call is in progress.
AllIdle == \A q \in Procs : pc[q] = "idle"

\* One call at a time, with every spec argument: the controller's own loop.
Next ==
    \/ \E p \in Procs, s \in SpecArgs : AllIdle /\ ReconcileBuild(p, s)
    \/ \E p \in Procs : ReconcileGet(p)
    \/ \E p \in Procs : ReconcileCreateOrUpdate(p)
    \/ \E p \in Procs, s \in SpecArgs : AllIdle /\ Delete(p, s)
    \/ \E p \in Procs, s \in SpecArgs : AllIdle /\ Get(p, s)
    \/ \E p \in Procs : Return(p)
    \/ ProviderFinish

Spec == Init /\ [][Next]_vars

\* The specs of the callers that run at the same time: they differ in the
\* Kubernetes version they ask for.
ConcSpecs == { BaseSpec(v, CIDR16, Nil) : v \in Versions }

ConcInit ==
    /\ store \in {Nil} \cup { Ptr(WithState(BuiltFor[s].mc, Ptr(ps))) :
                                s \in ConcSpecs, ps \in ProvisioningStates }
    /\ CallersIdle
    /\ goal = Nil

\* No caller holds a result it has not taken yet.
NoneReturned == \A q \in Procs : pc[q] \notin {"done", "crashed"}

\* Several callers at once, for the same resource. A caller takes the result
\* of its call before anyone takes another step: Return changes nothing but
\* the caller's own variables, which no other caller's step reads, so that
\* every interleaving of the provider calls is still there.
ConcNext ==
    \/ \E p \in Procs, s \in ConcSpecs : NoneReturned /\ ReconcileBuild(p, s)
    \/ \E p \in Procs : NoneReturned /\ ReconcileGet(p)
    \/ \E p \in Procs : NoneReturned /\ ReconcileCreateOrUpdate(p)
    \/ \E p \in Procs : NoneReturned /\ Delete(p, BaseSpec("1.20.5", CIDR16, Nil))
    \/ \E p \in Procs : Return(p)
    \/ NoneReturned /\ ProviderFinish

ConcSpec == ConcInit /\ [][ConcNext]_vars

\* The resource does not exist yet and Reconcile is called, one call at a time,
\* with specs that differ in their service CIDR and DNS service IP.
NetInit ==
    /\ store = Nil
    /\ CallersIdle
    /\ goal = Nil

NetNext ==
    \/ \E p \in Procs, s \in NetSpecs : AllIdle /\ ReconcileBuild(p, s)
    \/ \E p \in Procs : ReconcileGet(p)
    \/ \E p \in Procs : ReconcileCreateOrUpdate(p)
    \/ \E p \in Procs : Return(p)
    \/ ProviderFinish

NetSpec == NetInit /\ [][NetNext]_vars

\* The control loop reconciles one valid spec, forever, and nobody else writes
\* to the resource, which carries a provisioning state.
LiveInit ==
    /\ store \in {st \in InitialStores : st = Nil \/ StateOf(st) # Nil}
    /\ CallersIdle
    /\ goal \in {Ptr(s) : s \in {x \in Specs : BuiltFor[x].err = Nil}}

\* A step of a caller of the control loop. The provider answers every Get and
\* accepts every CreateOrUpdate.
LiveCall ==
    \/ \E p \in Procs : AllIdle /\ ReconcileBuild(p, Deref(goal))
    \/ \E p \in Procs : ReconcileGetWith(p, FALSE)
    \/ \E p \in Procs, complete \in BOOLEAN : ReconcileCreateOrUpdateWith(p, FALSE, complete)
    \/ \E p \in Procs : Return(p)

LiveNext ==
    \/ LiveCall
    \/ ProviderFinish

\* Reconcile is called again and again and each call goes on to its return;
\* the provider ends every transition.
LiveFairness ==
    /\ WF_vars(LiveCall)
    /\ WF_vars(ProviderFinish)

LiveSpec == LiveInit /\ [][LiveNext]_vars /\ LiveFairness

\* ------------------------------------------------------------- properties

\* Caller p is in, or has returned from, Reconcile with a *Spec.
Reconciling(p) == op[p] = "Reconcile" /\ IsSpec(Deref(spec[p]))

\* Caller p's call has fetched the existing resource.
HasGet(p) == Len(calls[p]) >= 1 /\ calls[p][1].name = "Get"

TheGet(p) == calls[p][1]

\* The mutating calls caller p's call has issued.
Mutations(p) == {i \in DOMAIN calls[p] : IsMutating(calls[p][i])}

\* The resource caller p's spec describes.
Built(p) == BuildManagedCluster(Deref(spec[p])).mc

\* Caller p's Get answered with a resource that carries a provisioning state.
FoundWithState(p) ==
    /\ HasGet(p)
    /\ TheGet(p).err = Nil
    /\ StateOf(TheGet(p).res) # Nil

FoundState(p) == Deref(StateOf(TheGet(p).res))

FoundVersion(p) ==
    Deref(Deref(TheGet(p).res).ManagedClusterProperties).KubernetesVersion

\* Call number i of caller p is a CreateOrUpdate of the built resource for the
\* spec's resource group and name.
SendsBuilt(p, i) ==
    /\ calls[p][i].name = "CreateOrUpdate"
    /\ calls[p][i].resourceGroup = Deref(spec[p]).ResourceGroupName
    /\ calls[p][i].resourceName = Deref(spec[p]).Name
    /\ calls[p][i].arg = Ptr(Built(p))

\* C1: a Reconcile whose Get answers NotFound issues exactly one
\* CreateOrUpdate, of the built resource for the spec's resource group and
\* name, and returns success when that call succeeds.
C1_CreateOnNotFound ==
    \A p \in Procs :
        (Reconciling(p) /\ HasGet(p) /\ ResourceNotFound(TheGet(p).err)) =>
            /\ pc[p] \in {"create", "done"}
            /\ pc[p] = "create" => Mutations(p) = {}
            /\ pc[p] = "done" =>
                /\ Len(calls[p]) = 2
                /\ SendsBuilt(p, 2)
                /\ calls[p][2].err = Nil => ret[p] = Nil

C1_Witness ==
    \E p \in Procs :
        /\ Reconciling(p) /\ HasGet(p) /\ ResourceNotFound(TheGet(p).err)
        /\ pc[p] = "done" /\ Len(calls[p]) = 2
        /\ calls[p][2].err = Nil /\ ret[p] = Nil

\* C2: a Reconcile that finds the resource in a provisioning state other than
\* Succeeded, Failed and Canceled returns the error that carries that state
\* and issues no mutating call, whatever Kubernetes version the spec asks for.
C2_BlockedInTransition ==
    \A p \in Procs :
        (Reconciling(p) /\ FoundWithState(p) /\ FoundState(p) \notin TerminalStates) =>
            /\ pc[p] = "done"
            /\ ret[p] = NonTerminalErr(FoundState(p))
            /\ Mutations(p) = {}

C2_Witness ==
    \E p \in Procs :
        /\ Reconciling(p) /\ FoundWithState(p) /\ FoundState(p) = "Creating"
        /\ FoundVersion(p) # Ptr(Deref(spec[p]).Version)
        /\ pc[p] = "done" /\ ret[p] = NonTerminalErr("Creating")

\* C3: a Reconcile that finds the resource in a terminal state with the
\* Kubernetes version the spec asks for issues no mutating call and returns
\* success, whatever the other fields of the resource found are.
C3_NoOpOnSameVersion ==
    \A p \in Procs :
        ( /\ Reconciling(p) /\ FoundWithState(p) /\ FoundState(p) \in TerminalStates
          /\ FoundVersion(p) = Ptr(Deref(spec[p]).Version) ) =>
            /\ pc[p] = "done"
            /\ ret[p] = Nil
            /\ Len(calls[p]) = 1

\* The resource found differs from the built one in its identity, location, tags,
\* agent pools, Linux profile and network profile.
C3_Witness ==
    \E p \in Procs :
        /\ Reconciling(p) /\ FoundWithState(p) /\ FoundState(p) \in TerminalStates
        /\ FoundVersion(p) = Ptr(Deref(spec[p]).Version)
        /\ pc[p] = "done" /\ ret[p] = Nil /\ Mutations(p) = {}
        /\ LET found == Deref(TheGet(p).res)
               fp    == Deref(found.ManagedClusterProperties)
               bp    == Deref(Built(p).ManagedClusterProperties)
           IN  /\ found.Identity # Built(p).Identity
               /\ found.Location # Built(p).Location
               /\ found.Tags # Built(p).Tags
               /\ fp.AgentPoolProfiles # bp.AgentPoolProfiles
               /\ fp.LinuxProfile # bp.LinuxProfile
               /\ fp.NetworkProfile # bp.NetworkProfile

\* C4: a Reconcile that finds the resource in a terminal state with another
\* Kubernetes version than the spec asks for issues exactly one
\* CreateOrUpdate, of the built resource with the version asked for, and
\* returns success when that call succeeds.
C4_UpdateOnOtherVersion ==
    \A p \in Procs :
        ( /\ Reconciling(p) /\ FoundWithState(p) /\ FoundState(p) \in TerminalStates
          /\ FoundVersion(p) # Ptr(Deref(spec[p]).Version) ) =>
            /\ pc[p] \in {"update", "done"}
            /\ pc[p] = "update" => Mutations(p) = {}
            /\ pc[p] = "done" =>
                /\ Len(calls[p]) = 2
                /\ SendsBuilt(p, 2)
                /\ Deref(Deref(calls[p][2].arg).ManagedClusterProperties).KubernetesVersion
                      = Ptr(Deref(spec[p]).Version)
                /\ calls[p][2].err = Nil => ret[p] = Nil

C4_Witness ==
    \E p \in Procs :
        /\ Reconciling(p) /\ FoundWithState(p) /\ FoundState(p) = "Succeeded"
        /\ FoundVersion(p) \notin {Nil, Ptr(Deref(spec[p]).Version)}
        /\ pc[p] = "done" /\ Len(calls[p]) = 2
        /\ calls[p][2].err = Nil /\ ret[p] = Nil

\* C5: a call issues at most one mutating provider call; a CreateOrUpdate
\* that failed is not issued again.
C5_AtMostOneMutation ==
    \A p \in Procs : Cardinality(Mutations(p)) <= 1

C5_Witness ==
    \E p \in Procs :
        /\ Reconciling(p) /\ pc[p] = "done"
        /\ Len(calls[p]) = 2 /\ calls[p][2].name = "CreateOrUpdate"
        /\ calls[p][2].err # Nil /\ ret[p] # Nil

\* The resource the provider holds is in a provisioning state that is not
\* terminal.
InTransition(st) == StateOf(st) # Nil /\ Deref(StateOf(st)) \notin TerminalStates

\* This step is caller p issuing a CreateOrUpdate.
IssuesCreateOrUpdate(p) ==
    /\ Len(calls'[p]) = Len(calls[p]) + 1
    /\ calls'[p][Len(calls'[p])].name = "CreateOrUpdate"

\* C6 as stated: no CreateOrUpdate is issued while the resource is in a
\* provisioning state that is not terminal.
C6_Original ==
    [][\A p \in Procs : IssuesCreateOrUpdate(p) => ~InTransition(store)]_vars

\* C6: no CreateOrUpdate is issued while the resource is in a provisioning
\* state that is not terminal, but by a call that was overtaken: the provider
\* accepted another caller's CreateOrUpdate or Delete after the call's Get
\* and before its CreateOrUpdate.
C6_NoUpdateInTransitionUnlessOvertaken ==
    [][\A p \in Procs :
          IssuesCreateOrUpdate(p) => (~InTransition(store) \/ raced[p])]_vars

\* An overtaken call has issued its CreateOrUpdate, which the provider refused,
\* the resource being in transition then as it is now.
C6_Witness ==
    \E p \in Procs :
        /\ Reconciling(p) /\ pc[p] = "done" /\ raced[p]
        /\ Len(calls[p]) = 2 /\ calls[p][2].name = "CreateOrUpdate"
        /\ calls[p][2].err # Nil
        /\ InTransition(store)

\* No call of caller p failed for a reason of the provider's own.
NoProviderFailure(p) == \A i \in DOMAIN calls[p] : calls[p][i].err # ProviderErr

\* C7 as stated: a Reconcile that follows a Reconcile with the same spec that
\* returned success, the provider's state not having changed in between,
\* returns success and issues no mutating call.
C7_Original ==
    \A p \in Procs :
        (Reconciling(p) /\ pc[p] = "done" /\ pred[p] # Nil /\ NoProviderFailure(p)) =>
            /\ ret[p] = Nil
            /\ Mutations(p) = {}

\* C7: a Reconcile that follows a Reconcile with the same spec that returned
\* success, the provider's state not having changed in between, issues no
\* mutating call. It returns success when the resource is in a terminal state,
\* as it is after a NoOp; when the first call's CreateOrUpdate left the
\* resource Creating or Updating it returns the non-terminal-state error.
C7_SecondCallMutatesNothing ==
    \A p \in Procs :
        (Reconciling(p) /\ pred[p] # Nil /\ HasGet(p) /\ NoProviderFailure(p)) =>
            /\ pc[p] = "done"
            /\ Len(calls[p]) = 1
            /\ FoundWithState(p)
            /\ IF FoundState(p) \in TerminalStates
               THEN ret[p] = Nil
               ELSE /\ ret[p] = NonTerminalErr(FoundState(p))
                    /\ FoundState(p) \in {"Creating", "Updating"}
                    /\ Deref(pred[p]) \in {"Create", "Update"}
            /\ Deref(pred[p]) = "NoOp" => ret[p] = Nil

C7_Witness ==
    \E p \in Procs :
        /\ Reconciling(p) /\ pc[p] = "done" /\ pred[p] = Ptr("Create")
        /\ Len(calls[p]) = 1 /\ TheGet(p).err = Nil
        /\ ret[p] = NonTerminalErr("Creating")

\* C9: Delete issues the one Delete call; it returns success when that call
\* succeeds or answers NotFound, and an error for every other failure.
C9_DeleteResult ==
    \A p \in Procs :
        (op[p] = "Delete" /\ pc[p] = "done" /\ IsSpec(Deref(spec[p]))) =>
            /\ Len(calls[p]) = 1
            /\ calls[p][1].name = "Delete"
            /\ calls[p][1].resourceGroup = Deref(spec[p]).ResourceGroupName
            /\ calls[p][1].resourceName = Deref(spec[p]).Name
            /\ (calls[p][1].err = Nil \/ ResourceNotFound(calls[p][1].err)) => ret[p] = Nil
            /\ (calls[p][1].err # Nil /\ ~ResourceNotFound(calls[p][1].err)) =>
                  /\ ret[p] # Nil
                  /\ Deref(ret[p]).cause = calls[p][1].err

C9_Witness ==
    \E p \in Procs :
        /\ op[p] = "Delete" /\ pc[p] = "done" /\ IsSpec(Deref(spec[p]))
        /\ Len(calls[p]) = 1 /\ ResourceNotFound(calls[p][1].err)
        /\ ret[p] = Nil

\* Caller p's spec has a service CIDR that is not empty and does not parse.
MalformedServiceCIDR(p) ==
    /\ Deref(spec[p]).ServiceCIDR # EmptyString
    /\ ~ParseCIDR(Deref(spec[p]).ServiceCIDR).ok

\* C10 as stated: a Reconcile with a service CIDR that does not parse fails
\* with the parse error and issues no provider call, whether or not the spec
\* gives a DNS service IP.
C10_Original ==
    \A p \in Procs :
        (Reconciling(p) /\ MalformedServiceCIDR(p)) =>
            /\ pc[p] = "done"
            /\ ret[p] = ParseCIDRErr
            /\ calls[p] = <<>>

\* C10: a Reconcile with a service CIDR that does not parse and no DNS service
\* IP fails with the parse error and issues no provider call.
C10_MalformedCIDRWithoutDNSIP ==
    \A p \in Procs :
        (Reconciling(p) /\ MalformedServiceCIDR(p) /\ Deref(spec[p]).DNSServiceIP = Nil) =>
            /\ pc[p] = "done"
            /\ ret[p] = ParseCIDRErr
            /\ calls[p] = <<>>

C10_Witness ==
    \E p \in Procs :
        /\ Reconciling(p) /\ Deref(spec[p]).ServiceCIDR = NotACIDR
        /\ Deref(spec[p]).DNSServiceIP = Nil
        /\ pc[p] = "done" /\ ret[p] = ParseCIDRErr /\ calls[p] = <<>>

\* The resource exists with the Kubernetes version the control loop's spec asks
\* for.
Converged ==
    /\ store # Nil
    /\ Deref(store).ManagedClusterProperties # Nil
    /\ Deref(Deref(store).ManagedClusterProperties).KubernetesVersion
          = Ptr(Deref(goal).Version)

\* This step is caller p's Get finding the resource in a terminal state.
FindsTerminal(p) ==
    /\ pc[p] = "get"
    /\ Len(calls'[p]) = 1
    /\ calls'[p][1].err = Nil
    /\ StateOf(store) # Nil
    /\ Deref(StateOf(store)) \in TerminalStates

\* C8: under the control loop that reconciles one valid spec forever, with a
\* provider that accepts every CreateOrUpdate and ends every transition, the
\* resource in the end exists with the version asked for and stays so; and a
\* Reconcile that finds it so, in a terminal state, returns success at once,
\* with no mutating call.
C8_Convergence ==
    /\ <>[]Converged
    /\ [][\A p \in Procs :
            (Converged /\ FindsTerminal(p)) =>
                (pc'[p] = "done" /\ ret'[p] = Nil /\ Len(calls'[p]) = 1)]_vars

\* A Reconcile has created the resource and the next one finds nothing to do.
C8_Witness ==
    \E p \in Procs :
        /\ goal # Nil /\ Converged
        /\ Reconciling(p) /\ pc[p] = "done" /\ pred[p] = Ptr("Create")
        /\ FoundWithState(p) /\ FoundState(p) \in TerminalStates
        /\ ret[p] = Nil /\ Len(calls[p]) = 1

\* The resource that call number i of caller p sent to the provider.
Submitted(p, i) == Deref(calls[p][i].arg)

\* The network profile of a managed cluster.
NetworkProfileOf(mc) == Deref(Deref(mc.ManagedClusterProperties).NetworkProfile)

\* The CreateOrUpdate calls caller p's call has issued.
CreateOrUpdates(p) == {i \in DOMAIN calls[p] : calls[p][i].name = "CreateOrUpdate"}

\* C11 as stated: the resource a Reconcile sends for a spec with a service
\* CIDR and an explicit DNS service IP carries the spec's service CIDR and the
\* spec's DNS service IP.
C11_Original ==
    \A p \in Procs :
        (/\ Reconciling(p)
         /\ Deref(spec[p]).ServiceCIDR # EmptyString
         /\ Deref(spec[p]).DNSServiceIP # Nil) =>
            \A i \in CreateOrUpdates(p) :
                /\ NetworkProfileOf(Submitted(p, i)).ServiceCidr
                      = Ptr(Deref(spec[p]).ServiceCIDR)
                /\ NetworkProfileOf(Submitted(p, i)).DNSServiceIP
                      = Deref(spec[p]).DNSServiceIP

\* A Reconcile for "10.0.0.0/16" with the DNS service IP "10.0.0.10" has sent a
\* resource that carries the DNS service IP and no service CIDR.
C11_Witness ==
    \E p \in Procs :
        /\ Reconciling(p)
        /\ Deref(spec[p]).ServiceCIDR = CIDR16
        /\ Deref(spec[p]).DNSServiceIP = Ptr(DNS10)
        /\ \E i \in CreateOrUpdates(p) :
              /\ NetworkProfileOf(Submitted(p, i)).ServiceCidr = Nil
              /\ NetworkProfileOf(Submitted(p, i)).DNSServiceIP = Ptr(DNS10)

\* Caller p's Reconcile has built its resource from a spec with a service CIDR
\* that parses and no DNS service IP.
DerivesDNSServiceIP(p) ==
    /\ Reconciling(p)
    /\ managedCluster[p] # Nil
    /\ Deref(spec[p]).ServiceCIDR # EmptyString
    /\ Deref(spec[p]).DNSServiceIP = Nil
    /\ ParseCIDR(Deref(spec[p]).ServiceCIDR).ok

\* The network profile of the resource caller p's Reconcile built.
BuiltNetwork(p) == NetworkProfileOf(Deref(managedCluster[p]))

\* The address and network that caller p's service CIDR parses to.
ParsedCIDR(p) == ParseCIDR(Deref(spec[p]).ServiceCIDR)

\* C12 as stated: the derived DNS service IP is the base address of the
\* network with its last octet set to 10, whatever address the CIDR is
\* written with, and the service CIDR is the spec's.
C12_Original ==
    \A p \in Procs :
        DerivesDNSServiceIP(p) =>
            /\ BuiltNetwork(p).ServiceCidr = Ptr(Deref(spec[p]).ServiceCIDR)
            /\ BuiltNetwork(p).DNSServiceIP # Nil
            /\ parseIPv4(Deref(BuiltNetwork(p).DNSServiceIP))
                  = IPv4(ParsedCIDR(p).net[1], ParsedCIDR(p).net[2],
                         ParsedCIDR(p).net[3], 10)

\* C12: the derived DNS service IP is the address the CIDR is written with,
\* its last octet set to 10, and the service CIDR is the spec's. That is the
\* base address of the network with its last octet set to 10 when the first
\* three octets of the written address are those of the base address, as in
\* "10.0.0.0/16", which gives "10.0.0.10".
C12_DerivedFromWrittenAddress ==
    \A p \in Procs :
        DerivesDNSServiceIP(p) =>
            /\ BuiltNetwork(p).ServiceCidr = Ptr(Deref(spec[p]).ServiceCIDR)
            /\ BuiltNetwork(p).DNSServiceIP # Nil
            /\ parseIPv4(Deref(BuiltNetwork(p).DNSServiceIP))
                  = IPv4(ParsedCIDR(p).ip[13], ParsedCIDR(p).ip[14],
                         ParsedCIDR(p).ip[15], 10)
            /\ (\A k \in 1..3 : ParsedCIDR(p).ip[12 + k] = ParsedCIDR(p).net[k]) =>
                  parseIPv4(Deref(BuiltNetwork(p).DNSServiceIP))
                      = IPv4(ParsedCIDR(p).net[1], ParsedCIDR(p).net[2],
                             ParsedCIDR(p).net[3], 10)
            /\ Deref(spec[p]).ServiceCIDR = CIDR16 =>
                  BuiltNetwork(p).DNSServiceIP = Ptr(DNS10)

\* "10.0.5.7/16" has given "10.0.5.10", where the base address gives
\* "10.0.0.10".
C12_Witness ==
    \E p \in Procs :
        /\ DerivesDNSServiceIP(p)
        /\ Deref(spec[p]).ServiceCIDR = CIDRNonBase
        /\ BuiltNetwork(p).DNSServiceIP
              = Ptr(<<"1", "0", ".", "0", ".", "5", ".", "1", "0">>)
        /\ ParsedCIDR(p).net = <<10, 0, 0, 0>>

\* C13: a Reconcile for a spec with an empty service CIDR builds, and sends,
\* a resource with neither a service CIDR nor a DNS service IP, also when the
\* spec gives a DNS service IP.
C13_NoServiceNetworkWithoutCIDR ==
    \A p \in Procs :
        (Reconciling(p) /\ Deref(spec[p]).ServiceCIDR = EmptyString) =>
            /\ managedCluster[p] # Nil
            /\ BuiltNetwork(p).ServiceCidr = Nil
            /\ BuiltNetwork(p).DNSServiceIP = Nil
            /\ \A i \in CreateOrUpdates(p) :
                  /\ NetworkProfileOf(Submitted(p, i)).ServiceCidr = Nil
                  /\ NetworkProfileOf(Submitted(p, i)).DNSServiceIP = Nil

\* A Reconcile for a spec with the DNS service IP "10.0.0.10" and no service
\* CIDR has sent its resource.
C13_Witness ==
    \E p \in Procs :
        /\ Reconciling(p)
        /\ Deref(spec[p]).ServiceCIDR = EmptyString
        /\ Deref(spec[p]).DNSServiceIP = Ptr(DNS10)
        /\ CreateOrUpdates(p) # {}
        /\ BuiltNetwork(p).DNSServiceIP = Nil

\* The Get calls caller p's call has issued.
Gets(p) == {i \in DOMAIN calls[p] : calls[p][i].name = "Get"}

\* The Get answered NotFound, or with a resource in a terminal state.
AllowsCreateOrUpdate(get) ==
    \/ ResourceNotFound(get.err)
    \/ /\ get.err = Nil
       /\ StateOf(get.res) # Nil
       /\ Deref(StateOf(get.res)) \in TerminalStates

\* C14: a CreateOrUpdate of a Reconcile is the call's second provider call,
\* after its one Get for the same resource group and name, which answered
\* NotFound or with a resource that is Succeeded, Failed or Canceled; after a
\* Get that failed otherwise or found another state there is no CreateOrUpdate.
C14_GetBeforeCreateOrUpdate ==
    \A p \in Procs :
        op[p] = "Reconcile" =>
            /\ \A i \in CreateOrUpdates(p) :
                  /\ i = 2
                  /\ Gets(p) = {1}
                  /\ calls[p][1].resourceGroup = calls[p][i].resourceGroup
                  /\ calls[p][1].resourceName = calls[p][i].resourceName
                  /\ calls[p][1].resourceGroup = Deref(spec[p]).ResourceGroupName
                  /\ calls[p][1].resourceName = Deref(spec[p]).Name
                  /\ AllowsCreateOrUpdate(calls[p][1])
            /\ (HasGet(p) /\ ~AllowsCreateOrUpdate(TheGet(p))) => CreateOrUpdates(p) = {}

\* A Reconcile has sent its resource after its Get found the existing one
\* Failed.
C14_Witness ==
    \E p \in Procs :
        /\ op[p] = "Reconcile"
        /\ CreateOrUpdates(p) = {2}
        /\ Gets(p) = {1}
        /\ FoundWithState(p) /\ FoundState(p) = "Failed"

\* The provider call c did not fail; a Get that answers NotFound counts as not
\* failed.
Succeeded(c) == c.err = Nil \/ (c.name = "Get" /\ ResourceNotFound(c.err))

\* C15: a Reconcile that has returned success made no provider call that
\* failed, but a Get that answered NotFound; after a Get that failed otherwise
\* it returns that error, wrapped, with no further call; after a CreateOrUpdate
\* that failed it returns that error, wrapped.
C15_SuccessOnlyIfCallsSucceeded ==
    \A p \in Procs :
        (Reconciling(p) /\ pc[p] = "done") =>
            /\ ret[p] = Nil => \A i \in DOMAIN calls[p] : Succeeded(calls[p][i])
            /\ (HasGet(p) /\ ~Succeeded(TheGet(p))) =>
                  /\ ret[p] # Nil
                  /\ Deref(ret[p]).cause = TheGet(p).err
                  /\ Len(calls[p]) = 1
            /\ \A i \in CreateOrUpdates(p) :
                  calls[p][i].err # Nil =>
                      /\ ret[p] # Nil
                      /\ Deref(ret[p]).cause = calls[p][i].err

\* A Reconcile has returned the error of its CreateOrUpdate on the update
\* path.
C15_Witness ==
    \E p \in Procs :
        /\ Reconciling(p) /\ pc[p] = "done"
        /\ FoundWithState(p)
        /\ CreateOrUpdates(p) = {2}
        /\ calls[p][2].err = ProviderErr
        /\ ret[p] = Wrap(ProviderErr, "failed to update managed cluster")

\* C16 as stated: a Reconcile whose Get answered without an error goes on to
\* return a value, whatever resource the Get answered with; it never crashes.
C16_Original ==
    \A p \in Procs :
        (Reconciling(p) /\ HasGet(p) /\ TheGet(p).err = Nil) => pc[p] # "crashed"

\* A Reconcile has crashed on a resource that the Get answered with and that
\* carries no provisioning state.
C16_Witness ==
    \E p \in Procs :
        /\ Reconciling(p) /\ HasGet(p) /\ TheGet(p).err = Nil
        /\ TheGet(p).res # Nil
        /\ Deref(TheGet(p).res).ManagedClusterProperties # Nil
        /\ StateOf(TheGet(p).res) = Nil
        /\ pc[p] = "crashed"

\* C17: a Delete with a *Spec issues one provider call, the Delete for the
\* spec's resource group and name, and neither a Get nor a CreateOrUpdate,
\* whatever the provider holds.
C17_DeleteIssuesOneDelete ==
    \A p \in Procs :
        (op[p] = "Delete" /\ IsSpec(Deref(spec[p]))) =>
            /\ pc[p] = "done"
            /\ Len(calls[p]) = 1
            /\ Gets(p) = {}
            /\ CreateOrUpdates(p) = {}
            /\ calls[p][1].name = "Delete"
            /\ calls[p][1].resourceGroup = Deref(spec[p]).ResourceGroupName
            /\ calls[p][1].resourceName = Deref(spec[p]).Name

\* A Delete has issued its call for a resource that is being updated; the
\* provider failed and the resource is as it was.
C17_Witness ==
    \E p \in Procs :
        /\ op[p] = "Delete" /\ IsSpec(Deref(spec[p])) /\ pc[p] = "done"
        /\ Len(calls[p]) = 1 /\ calls[p][1].name = "Delete"
        /\ calls[p][1].err = ProviderErr
        /\ StateOf(store) = Ptr("Updating")

\* IPNet.Contains for the network that r, the answer of ParseCIDR, holds: the
\* address, masked by the prefix length, is the network address.
Contains(r, ip) ==
    ip # Nil /\ \A k \in 1..IPv4len : MaskIPv4(ip, r.ones)[k] = r.net[k]

\* C18: the DNS service IP that Reconcile derives from a service CIDR with a
\* prefix length of at most 24 is an address of that CIDR's network.
C18_DerivedDNSServiceIPInRange ==
    \A p \in Procs :
        (DerivesDNSServiceIP(p) /\ ParsedCIDR(p).ones <= 24) =>
            /\ BuiltNetwork(p).DNSServiceIP # Nil
            /\ Contains(ParsedCIDR(p), parseIPv4(Deref(BuiltNetwork(p).DNSServiceIP)))

\* "172.16.37.200/20" has given "172.16.37.10", an address of 172.16.32.0/20.
C18_Witness ==
    \E p \in Procs :
        /\ DerivesDNSServiceIP(p)
        /\ Deref(spec[p]).ServiceCIDR = CIDR20
        /\ ParsedCIDR(p).ones = 20
        /\ ParsedCIDR(p).net = <<172, 16, 32, 0>>
        /\ parseIPv4(Deref(BuiltNetwork(p).DNSServiceIP)) = IPv4(172, 16, 37, 10)

\* C19: while a call of Reconcile, Delete or Get is in progress, and when it
\* has returned or crashed, the spec it was given is what the caller passed.
C19_SpecUnchanged ==
    \A p \in Procs :
        pc[p] # "idle" =>
            /\ given[p] # Nil
            /\ spec[p] = given[p]

\* A Reconcile that derived the DNS service IP has sent its resource and
\* returned, and its spec still has no DNS service IP.
C19_Witness ==
    \E p \in Procs :
        /\ Reconciling(p) /\ pc[p] = "done" /\ ret[p] = Nil
        /\ CreateOrUpdates(p) # {}
        /\ BuiltNetwork(p).DNSServiceIP = Ptr(DNS10)
        /\ Deref(given[p]).DNSServiceIP = Nil
        /\ spec[p] = given[p]

=============================================================================
